---------------------------- MODULE Spec2Model ----------------------------
(***************************************************************************)
(* A model of the gami AMI client (src/gami.go): the pending-action        *)
(* registry and its RWMutex, the reader goroutine started by Run, the      *)
(* notifyResponse goroutines, Login / Reconnect / Close, and the three     *)
(* application-facing channels.                                            *)
(*                                                                         *)
(* Text is modelled as sequences of one-character strings so that the      *)
(* normalisation of header names and values is computed, not assumed.      *)
(***************************************************************************)
EXTENDS Integers, Sequences, FiniteSets, TLC

(***************************************************************************)
(* Bounds of the model (not program constants).                            *)
(***************************************************************************)
NumCallers == 2
MaxCalls == 2
MaxMsgs == 2
MaxReaders == 2
MaxClock == 2
MaxFaults == 1

(***************************************************************************)
(* Program constants: the capacities given to make() in Dial.              *)
(***************************************************************************)
EventsCap == 100
ErrorCap == 1
NetErrorCap == 1
SlotCap == 1

(***************************************************************************)
(* Text.                                                                   *)
(***************************************************************************)
Lowers == <<"a", "b", "c", "d", "e", "f", "g", "h", "i", "j", "k", "l", "m",
           "n", "o", "p", "q", "r", "s", "t", "u", "v", "w", "x", "y", "z">>
Uppers == <<"A", "B", "C", "D", "E", "F", "G", "H", "I", "J", "K", "L", "M",
           "N", "O", "P", "Q", "R", "S", "T", "U", "V", "W", "X", "Y", "Z">>
DigitCh == <<"0", "1", "2", "3", "4", "5", "6", "7", "8", "9">>

\* unicode.ToLower on one character
ToLowerCh(c) ==
  IF \E i \in 1..Len(Uppers) : Uppers[i] = c
    THEN Lowers[CHOOSE i \in 1..Len(Uppers) : Uppers[i] = c]
    ELSE c

\* unicode.ToTitle on one character
ToTitleCh(c) ==
  IF \E i \in 1..Len(Lowers) : Lowers[i] = c
    THEN Uppers[CHOOSE i \in 1..Len(Lowers) : Lowers[i] = c]
    ELSE c

IsLetter(c) ==
  \/ \E i \in 1..Len(Lowers) : Lowers[i] = c
  \/ \E i \in 1..Len(Uppers) : Uppers[i] = c

IsDigit(c) == \E i \in 1..Len(DigitCh) : DigitCh[i] = c

\* strings.isSeparator: letters, digits and underscore do not separate words
IsSeparator(c) == ~(IsLetter(c) \/ IsDigit(c) \/ c = "_")

IsSpace(c) == c \in {" ", "\t", "\r", "\n"}

\* strings.ToLower
ToLower(s) == SubSeq([i \in 1..Len(s) |-> ToLowerCh(s[i])], 1, Len(s))

\* strings.Title: the first letter of every word in title case
Title(s) ==
  SubSeq([i \in 1..Len(s) |->
            IF i = 1 \/ IsSeparator(s[i - 1]) THEN ToTitleCh(s[i]) ELSE s[i]],
         1, Len(s))

\* strings.TrimSpace
TrimSpace(s) ==
  LET keep == {i \in 1..Len(s) : ~IsSpace(s[i])}
  IN IF keep = {} THEN << >>
     ELSE LET lo == CHOOSE i \in keep : \A j \in keep : i <= j
              hi == CHOOSE i \in keep : \A j \in keep : j <= i
          IN SubSeq(s, lo, hi)

RECURSIVE FormatInt(_)
\* fmt.Sprintf("%d", n) for n >= 0
FormatInt(n) ==
  IF n < 10 THEN <<DigitCh[n + 1]>>
  ELSE FormatInt(n \div 10) \o <<DigitCh[(n % 10) + 1]>>

kAction == <<"A", "c", "t", "i", "o", "n">>
kActionid == <<"A", "c", "t", "i", "o", "n", "i", "d">>
kUsername == <<"U", "s", "e", "r", "n", "a", "m", "e">>
kSecret == <<"S", "e", "c", "r", "e", "t">>
vLogin == <<"L", "o", "g", "i", "n">>
vLogoff == <<"L", "o", "g", "o", "f", "f">>
vPing == <<"P", "i", "n", "g">>

\* type Params map[string]string; a nil map is distinct from an empty one
NilParams == [nil |-> TRUE, m |-> << >>]
MkParams(f) == [nil |-> FALSE, m |-> f]

\* The parameter sets the application passes to Action in this model.
PNoAction == MkParams(<<"e", "v", "e", "n", "t", "m", "a", "s", "k">> :> <<"o", "n">>)
PPingAuto == MkParams(<<"A", "C", "T", "I", "O", "N">> :> <<" ", "P", "i", "n", "g", " ">>)
PPingX ==
  MkParams((<<"a", "c", "t", "i", "o", "n">> :> vPing)
           @@ (<<"A", "c", "t", "i", "o", "n", "I", "D">> :> <<" ", "X", " ">>))
ParamInputs == {NilParams, PNoAction, PPingAuto, PPingX}
idX == <<"X">>

\* The credentials the application passes to Login in this model.
Creds == {<<<<"u">>, <<" ", "p", "w">>>>}

\* A message as ReadMIMEHeader returns it, read through data.Get: a header
\* that is absent and a header with an empty value both read as "".
\* req and n are history fields: the request the server answers, and the
\* serial number of the message.
NoMsg == [Event |-> "", Response |-> "", Actionid |-> << >>, Message |-> "",
          req |-> 0, n |-> 0]

\* The value a receive yields on a closed, empty channel of *AMIResponse.
NilResponse == [ID |-> << >>, Status |-> "nil", Message |-> "", req |-> 0, n |-> 0]

\* A faulty newResponse guard: every header block counts as a response
IsResponseAlways(data) == data.Response # "" \/ data.Event # ""

IsResponse(data) == data.Response # ""
\* newResponse: the AMIResponse of a header block that has a Response header
\* (of Params, the headers other than Response, the model keeps Message)
newResponse(data) ==
  [ID |-> data.Actionid, Status |-> data.Response, Message |-> data.Message,
   req |-> data.req, n |-> data.n]

IsEvent(data) == data.Event # ""
\* newEvent: the AMIEvent of a header block that has an Event header
\* (of Params, the headers other than Event, the model keeps Actionid)
newEvent(data) == [ID |-> data.Event, Actionid |-> data.Actionid, n |-> data.n]

\* The read failures the model draws from, and the classification made by
\* the switch in Run.
ReadErrors == {"EOF", "OpError"}
IsNetError(err) == err \in {"ECONNABORTED", "ECONNRESET", "ECONNREFUSED", "EOF"}

NoChan == 0
Callers == 1..NumCallers

VARIABLES
  response,          \* client.response: action identifier -> channel
  chans,             \* the channels made for slots: buffer and closed flag
  mutexAsyncAction,  \* number of goroutines holding the read lock
  amiUser, amiPass,  \* stored credentials
  conn,              \* client.conn: index into transports
  connRaw,           \* client.connRaw: index into transports, 0 = nil
  transports,        \* every transport dialled: closed by us, ended by peer
  inbox,             \* header blocks in flight to us on transport conn
  sent,              \* header blocks written by Action
  Events, Error, NetError,
  callers,           \* application goroutines calling the API
  readers,           \* goroutines started by Run
  notifiers,         \* goroutines started by notifyResponse
  now,               \* the wall clock read by time.Now().UnixNano()
  nCalls, nMsgs, nFaults,
  panicked

vars == <<response, chans, mutexAsyncAction, amiUser, amiPass, conn, connRaw,
          transports, inbox, sent, Events, Error, NetError, callers, readers,
          notifiers, now, nCalls, nMsgs, nFaults, panicked>>

IdleCaller ==
  [pc |-> "idle", op |-> "none", ret |-> "none", ch |-> NoChan, id |-> << >>,
   got |-> NilResponse, recvd |-> FALSE, user |-> << >>, pass |-> << >>,
   req |-> 0, inRc |-> FALSE, msg |-> ""]

\* Dial: the client as Dial returns it after a successful NewConn
Init ==
  /\ response = << >>
  /\ chans = << >>
  /\ mutexAsyncAction = 0
  /\ amiUser = << >>
  /\ amiPass = << >>
  /\ conn = 1
  /\ connRaw = 1
  /\ transports = <<[closed |-> FALSE, eof |-> FALSE]>>
  /\ inbox = << >>
  /\ sent = << >>
  /\ Events = << >>
  /\ Error = << >>
  /\ NetError = << >>
  /\ callers = [c \in Callers |-> IdleCaller]
  /\ readers = << >>
  /\ notifiers = {}
  /\ now = 1
  /\ nCalls = 0
  /\ nMsgs = 0
  /\ nFaults = 0
  /\ panicked = FALSE

(***************************************************************************)
(* Channels of *AMIResponse.                                               *)
(***************************************************************************)
\* make(chan *AMIResponse, 1); dlv is a history field: the requests whose
\* answers have been sent on the channel
NewChan == [buf |-> << >>, closed |-> FALSE, dlv |-> {}]

\* client.response[id]: the nil channel when id is not a key
Slot(id) == IF id \in DOMAIN response THEN response[id] ELSE NoChan

\* delete(client.response, id)
MapDelete(m, id) == [k \in DOMAIN m \ {id} |-> m[k]]

Live(t) == ~transports[t].closed /\ ~transports[t].eof

(***************************************************************************)
(* Action and normaliser.                                                  *)
(***************************************************************************)
\* the key normaliser stores a header under
NormKey(k) == Title(ToLower(k))

\* The map normaliser builds from *p before the Actionid is filled in: every
\* key under its normalised name with its value trimmed.  Two keys that
\* normalise to the same name are stored in map iteration order, which Go
\* leaves open, so this is a set of maps.
FixedMaps(m) ==
  LET keys == {NormKey(k) : k \in DOMAIN m}
      vals(nk) == {TrimSpace(m[k]) : k \in {x \in DOMAIN m : NormKey(x) = nk}}
      all == UNION {vals(nk) : nk \in keys}
  IN {f : f \in {g \in [keys -> all] : \A nk \in keys : g[nk] \in vals(nk)}}

\* Every map Action is called with in this model, and FixedMaps of each
\* (evaluated once)
LoginArgs == Creds \cup {<<<< >>, << >>>>}
\* A faulty Login: the two credentials change places in the request
LoginMapSwapped(user, pass) ==
  (kAction :> vLogin) @@ (kUsername :> pass) @@ (kSecret :> user)

LoginMap(user, pass) == (kAction :> vLogin) @@ (kUsername :> user) @@ (kSecret :> pass)
CallMaps ==
  {p.m : p \in ParamInputs} \cup {kAction :> vLogoff}
    \cup {LoginMap(cr[1], cr[2]) : cr \in LoginArgs}
FixedTable == {<<m, FixedMaps(m)>> : m \in CallMaps}
FixedOf(m) == (CHOOSE e \in FixedTable : e[1] = m)[2]

\* normaliser reads the clock only when it has to generate the Actionid
ReadsClock(m) == \E f \in FixedOf(m) : kActionid \notin DOMAIN f
Clock(m, t) == IF ReadsClock(m) THEN t ELSE now

\* normaliser: the maps it can leave in *p at clock reading t
normaliser(m, t) ==
  {IF kActionid \in DOMAIN f THEN f ELSE f @@ (kActionid :> FormatInt(t)) :
     f \in FixedOf(m)}

\* client.conn.PrintfLine: whether the write can succeed / can fail
WriteResults ==
  IF transports[conn].closed THEN {FALSE}
  ELSE IF transports[conn].eof THEN {TRUE, FALSE}
  ELSE {TRUE}

\* A faulty early return of Action: the request goes out all the same
ActionFailureWriting(e, t) ==
  [err |-> e, ch |-> NoChan, id |-> << >>, req |-> 0, now |-> t,
   response |-> response, chans |-> chans,
   sent |-> Append(sent, [p |-> [Action |-> << >>, Actionid |-> << >>,
                                 Username |-> << >>, Secret |-> << >>,
                                 others |-> {}],
                          tr |-> conn, answered |-> TRUE, gen |-> FALSE])]

\* The early returns of Action: nothing registered, nothing written
ActionFailure(e, t) ==
  [err |-> e, ch |-> NoChan, id |-> << >>, req |-> 0, now |-> t,
   response |-> response, chans |-> chans, sent |-> sent]

\* time.Now(): the wall clock has not moved since it was last read, or it has
ClockReadings == now..MaxClock

\* The slot registration of Action: reuse the slot of id when there is one
RegisterSlot(id) ==
  IF id \in DOMAIN response
    THEN [response |-> response, chans |-> chans]
    ELSE [response |-> response @@ (id :> Len(chans) + 1),
          chans |-> Append(chans, NewChan)]

\* The value of header k in the block p
Get(p, k) == IF k \in DOMAIN p THEN p[k] ELSE << >>

\* The header block PrintfLine writes for the map fixp, as the peer reads it:
\* the headers the protocol envelope and Login use, and the names of the rest
Wire(fixp) ==
  [Action |-> Get(fixp, kAction), Actionid |-> Get(fixp, kActionid),
   Username |-> Get(fixp, kUsername), Secret |-> Get(fixp, kSecret),
   others |-> DOMAIN fixp \ {kAction, kActionid, kUsername, kSecret}]

\* A faulty return on a failed write: the registration is taken back
WriteFailureRolledBack(reg, t) ==
  [err |-> "errWrite", ch |-> NoChan, id |-> << >>, req |-> 0, now |-> t,
   response |-> response, chans |-> chans, sent |-> sent]

\* The return of Action on a failed write: reg, the registry as the slot
\* registration left it, stays
WriteFailure(reg, t) ==
  [err |-> "errWrite", ch |-> NoChan, id |-> << >>, req |-> 0, now |-> t,
   response |-> reg.response, chans |-> reg.chans, sent |-> sent]

\* Action past the nil check, with *p normalised to fixp at clock reading t;
\* gen records (history) that normaliser generated the Actionid
ActionOn(fixp, t, gen) ==
  IF kAction \notin DOMAIN fixp THEN {ActionFailure("errInvalidParams", t)}
  ELSE LET id == fixp[kActionid]
           reg == RegisterSlot(id)
       IN {IF ok
             THEN [err |-> "nil", ch |-> reg.response[id], id |-> id,
                   req |-> Len(sent) + 1, now |-> t,
                   response |-> reg.response, chans |-> reg.chans,
                   sent |-> Append(sent, [p |-> Wire(fixp), tr |-> conn,
                                          answered |-> FALSE, gen |-> gen])]
             ELSE WriteFailure(reg, t)
           : ok \in WriteResults}

\* Action(p), run under the write lock: every result it can return, with the
\* registry, the channels, the bytes written and the clock as it leaves them
ActionOutcomes(p) ==
  IF p.nil THEN {ActionFailure("errInvalidParams", now)}
  ELSE UNION {UNION {ActionOn(fixp, Clock(p.m, t), ReadsClock(p.m)) :
                       fixp \in normaliser(p.m, t)}
                : t \in ClockReadings}

\* mutexAsyncAction.Lock() can be taken: no goroutine holds the read lock
\* (every write-locked section of the program is one step of the model)
CanLock == mutexAsyncAction = 0

CanCall(c) ==
  /\ ~panicked
  /\ callers[c].pc \in {"idle", "await"}
  /\ nCalls < MaxCalls
  /\ \A d \in Callers : d < c => callers[d].op # "none"

\* The application calls Action(p)
AppAction(c) ==
  /\ CanCall(c)
  /\ CanLock
  /\ \E p \in ParamInputs : \E o \in ActionOutcomes(p) :
       /\ response' = o.response
       /\ chans' = o.chans
       /\ sent' = o.sent
       /\ now' = o.now
       /\ callers' = [callers EXCEPT ![c] =
            [IdleCaller EXCEPT !.op = "Action", !.ret = o.err, !.ch = o.ch,
                               !.id = o.id, !.req = o.req,
                               !.pc = IF o.err = "nil" THEN "await" ELSE "idle"]]
  /\ nCalls' = nCalls + 1
  /\ UNCHANGED <<mutexAsyncAction, amiUser, amiPass, conn, connRaw, transports,
                 inbox, Events, Error, NetError, readers, notifiers,
                 nMsgs, nFaults, panicked>>

\* A receive on channel ch is possible: a value is buffered or ch is closed
CanRecv(ch) == chans[ch].buf # << >> \/ chans[ch].closed
RecvValue(ch) == IF chans[ch].buf # << >> THEN Head(chans[ch].buf) ELSE NilResponse
RecvChans(ch) ==
  IF chans[ch].buf # << >>
    THEN [chans EXCEPT ![ch].buf = Tail(chans[ch].buf)]
    ELSE chans

\* The application receives from the channel Action returned to it
AppRecv(c) ==
  /\ ~panicked
  /\ callers[c].pc = "await"
  /\ CanRecv(callers[c].ch)
  /\ chans' = RecvChans(callers[c].ch)
  /\ callers' = [callers EXCEPT ![c].got = RecvValue(callers[c].ch),
                                ![c].recvd = TRUE, ![c].pc = "idle"]
  /\ UNCHANGED <<response, mutexAsyncAction, amiUser, amiPass, conn, connRaw,
                 transports, inbox, sent, Events, Error, NetError, readers,
                 notifiers, now, nCalls, nMsgs, nFaults, panicked>>

(***************************************************************************)
(* notifyResponse: one goroutine per response read.                        *)
(***************************************************************************)
\* go func() { ... }() in notifyResponse
Spawn(resp) == notifiers \cup {[resp |-> resp, pc |-> "rlock", ch |-> NoChan]}

\* What the run loop does with a header block after the event step:
\* newResponse and, when that succeeds, notifyResponse
Dispatch(data) == IF IsResponse(data) THEN Spawn(newResponse(data)) ELSE notifiers

SetPc(g, pc) == (notifiers \ {g}) \cup {[g EXCEPT !.pc = pc]}

\* mutexAsyncAction.RLock()
NotifyRLock(g) ==
  /\ ~panicked
  /\ g \in notifiers
  /\ g.pc = "rlock"
  /\ mutexAsyncAction' = mutexAsyncAction + 1
  /\ notifiers' = SetPc(g, "send")
  /\ UNCHANGED <<response, chans, amiUser, amiPass, conn, connRaw, transports,
                 inbox, sent, Events, Error, NetError, callers, readers, now,
                 nCalls, nMsgs, nFaults, panicked>>

\* client.response[response.ID] <- response: a send on the nil channel
\* blocks for ever, a send on a closed channel panics, a send on a full
\* channel waits
NotifySend(g) ==
  /\ ~panicked
  /\ g \in notifiers
  /\ g.pc = "send"
  /\ Slot(g.resp.ID) # NoChan
  /\ LET ch == Slot(g.resp.ID)
     IN IF chans[ch].closed
          THEN /\ panicked' = TRUE
               /\ UNCHANGED <<chans, notifiers>>
          ELSE /\ Len(chans[ch].buf) < SlotCap
               /\ chans' = [chans EXCEPT ![ch].buf = Append(@, g.resp),
                                         ![ch].dlv = @ \cup {g.resp.req}]
               /\ notifiers' = (notifiers \ {g})
                                 \cup {[g EXCEPT !.pc = "close", !.ch = ch]}
               /\ UNCHANGED panicked
  /\ UNCHANGED <<response, mutexAsyncAction, amiUser, amiPass, conn, connRaw,
                 transports, inbox, sent, Events, Error, NetError, callers,
                 readers, now, nCalls, nMsgs, nFaults>>

\* close(client.response[response.ID]); mutexAsyncAction.RUnlock()
NotifyClose(g) ==
  /\ ~panicked
  /\ g \in notifiers
  /\ g.pc = "close"
  /\ LET ch == Slot(g.resp.ID)
     IN IF ch = NoChan \/ chans[ch].closed
          THEN /\ panicked' = TRUE
               /\ UNCHANGED <<chans, notifiers, mutexAsyncAction>>
          ELSE /\ chans' = [chans EXCEPT ![ch].closed = TRUE]
               /\ mutexAsyncAction' = mutexAsyncAction - 1
               /\ notifiers' = SetPc(g, "lock")
               /\ UNCHANGED panicked
  /\ UNCHANGED <<response, amiUser, amiPass, conn, connRaw, transports, inbox,
                 sent, Events, Error, NetError, callers, readers, now, nCalls,
                 nMsgs, nFaults>>

\* mutexAsyncAction.Lock(); delete(client.response, response.ID); Unlock()
NotifyDelete(g) ==
  /\ ~panicked
  /\ g \in notifiers
  /\ g.pc = "lock"
  /\ CanLock
  /\ response' = MapDelete(response, g.resp.ID)
  /\ notifiers' = notifiers \ {g}
  /\ UNCHANGED <<chans, mutexAsyncAction, amiUser, amiPass, conn, connRaw,
                 transports, inbox, sent, Events, Error, NetError, callers,
                 readers, now, nCalls, nMsgs, nFaults, panicked>>

(***************************************************************************)
(* Run: the reading goroutine.                                             *)
(***************************************************************************)
\* lost is a history field: the transport whose read last failed as a
\* network error (0: none)
NewReader == [pc |-> "read", err |-> "", data |-> NoMsg, lost |-> 0]

\* Run(): starts one reading goroutine, every time it is called.  A goroutine
\* that has not been scheduled yet is in the state of one that has not been
\* started, so the calls are placed before everything else.
Run ==
  /\ ~panicked
  /\ Len(readers) < MaxReaders
  /\ nCalls = 0 /\ nMsgs = 0 /\ nFaults = 0
  /\ readers' = Append(readers, NewReader)
  /\ UNCHANGED <<response, chans, mutexAsyncAction, amiUser, amiPass, conn,
                 connRaw, transports, inbox, sent, Events, Error, NetError,
                 callers, notifiers, now, nCalls, nMsgs, nFaults, panicked>>

\* The branch of the switch in the run loop a read error takes
OnReadError(err) == IF IsNetError(err) THEN "netErr" ELSE "err"

\* The reader r after its read returned the error e
Failed(r, e) ==
  [readers EXCEPT ![r].pc = OnReadError(e), ![r].err = e,
                  ![r].lost = IF IsNetError(e) THEN conn ELSE @]

\* client.conn.ReadMIMEHeader() returns a header block; without an Event
\* header the loop goes straight on to newResponse
ReaderReadMsg(r) ==
  /\ ~panicked
  /\ r \in DOMAIN readers
  /\ readers[r].pc = "read"
  /\ ~transports[conn].closed
  /\ inbox # << >>
  /\ inbox' = Tail(inbox)
  /\ LET data == Head(inbox)
     IN IF IsEvent(data)
          THEN /\ readers' = [readers EXCEPT ![r].pc = "event", ![r].data = data]
               /\ UNCHANGED notifiers
          ELSE /\ notifiers' = Dispatch(data)
               /\ UNCHANGED readers
  /\ UNCHANGED <<response, chans, mutexAsyncAction, amiUser, amiPass, conn,
                 connRaw, transports, sent, Events, Error, NetError, callers,
                 now, nCalls, nMsgs, nFaults, panicked>>

\* The error a read on the current transport returns when no block is left:
\* end-of-stream after the peer closed, a closed-connection error after we did
ReadFailure ==
  IF transports[conn].closed THEN {"OpError"}
  ELSE IF transports[conn].eof /\ inbox = << >> THEN {"EOF"}
  ELSE {}

\* client.conn.ReadMIMEHeader() returns an error
ReaderReadErr(r) ==
  /\ ~panicked
  /\ r \in DOMAIN readers
  /\ readers[r].pc = "read"
  /\ \/ /\ \E e \in ReadFailure :
             readers' = Failed(r, e)
        /\ UNCHANGED nFaults
     \/ /\ nFaults < MaxFaults
        /\ ~transports[conn].closed
        /\ \E e \in ReadErrors \ {"EOF"} :
             readers' = Failed(r, e)
        /\ nFaults' = nFaults + 1
  /\ UNCHANGED <<response, chans, mutexAsyncAction, amiUser, amiPass, conn,
                 connRaw, transports, inbox, sent, Events, Error, NetError,
                 callers, notifiers, now, nCalls, nMsgs, panicked>>

\* client.NetError <- err
ReaderPushNetError(r) ==
  /\ ~panicked
  /\ r \in DOMAIN readers
  /\ readers[r].pc = "netErr"
  /\ Len(NetError) < NetErrorCap
  /\ NetError' = Append(NetError, readers[r].err)
  /\ readers' = [readers EXCEPT ![r].pc = "park"]
  /\ UNCHANGED <<response, chans, mutexAsyncAction, amiUser, amiPass, conn,
                 connRaw, transports, inbox, sent, Events, Error, callers,
                 notifiers, now, nCalls, nMsgs, nFaults, panicked>>

\* client.Error <- err; continue
ReaderPushError(r) ==
  /\ ~panicked
  /\ r \in DOMAIN readers
  /\ readers[r].pc = "err"
  /\ Len(Error) < ErrorCap
  /\ Error' = Append(Error, readers[r].err)
  /\ readers' = [readers EXCEPT ![r].pc = "read", ![r].err = ""]
  /\ UNCHANGED <<response, chans, mutexAsyncAction, amiUser, amiPass, conn,
                 connRaw, transports, inbox, sent, Events, NetError, callers,
                 notifiers, now, nCalls, nMsgs, nFaults, panicked>>

\* client.Events <- ev, then newResponse on the same header block
ReaderPublish(r) ==
  /\ ~panicked
  /\ r \in DOMAIN readers
  /\ readers[r].pc = "event"
  /\ Len(Events) < EventsCap
  /\ Events' = Append(Events, newEvent(readers[r].data))
  /\ notifiers' = Dispatch(readers[r].data)
  /\ readers' = [readers EXCEPT ![r].pc = "read", ![r].data = NoMsg]
  /\ UNCHANGED <<response, chans, mutexAsyncAction, amiUser, amiPass, conn,
                 connRaw, transports, inbox, sent, Error, NetError, callers,
                 now, nCalls, nMsgs, nFaults, panicked>>

(***************************************************************************)
(* Login, Reconnect, Close.                                                *)
(***************************************************************************)
\* Params{"Action": "Login", "Username": username, "Secret": password}
LoginParams(user, pass) == MkParams(LoginMap(user, pass))

\* The first half of Login: client.Action(...) and the return on its error
LoginSubmit(c, user, pass, inRc) ==
  \E o \in ActionOutcomes(LoginParams(user, pass)) :
    /\ response' = o.response
    /\ chans' = o.chans
    /\ sent' = o.sent
    /\ now' = o.now
    /\ callers' = [callers EXCEPT ![c] =
         [IdleCaller EXCEPT !.op = IF inRc THEN "Reconnect" ELSE "Login",
                            !.ret = IF o.err = "nil" THEN "none" ELSE o.err,
                            !.ch = o.ch, !.id = o.id, !.req = o.req,
                            !.user = user, !.pass = pass, !.inRc = inRc,
                            !.pc = IF o.err = "nil" THEN "loginWait" ELSE "idle"]]

\* The application calls Login(username, password)
Login(c) ==
  /\ CanCall(c)
  /\ CanLock
  /\ \E cr \in Creds : LoginSubmit(c, cr[1], cr[2], FALSE)
  /\ nCalls' = nCalls + 1
  /\ UNCHANGED <<mutexAsyncAction, amiUser, amiPass, conn, connRaw, transports,
                 inbox, Events, Error, NetError, readers, notifiers,
                 nMsgs, nFaults, panicked>>

\* A faulty Login: the status test is inverted
LoginFailsInverted(resp) == resp.Status # "Error"

\* if resp.Status == "Error"
LoginFails(resp) == resp.Status = "Error"

\* The second half of Login: resp := <-response and what follows.  A closed,
\* empty channel yields nil, and resp.Status then dereferences nil.
LoginReceive(c) ==
  /\ ~panicked
  /\ callers[c].pc = "loginWait"
  /\ CanRecv(callers[c].ch)
  /\ chans' = RecvChans(callers[c].ch)
  /\ LET resp == RecvValue(callers[c].ch)
     IN IF resp = NilResponse
          THEN /\ panicked' = TRUE
               /\ UNCHANGED <<callers, amiUser, amiPass>>
          ELSE IF LoginFails(resp)
            THEN /\ callers' = [callers EXCEPT ![c].got = resp, ![c].recvd = TRUE,
                                               ![c].ret = "errLogin",
                                               ![c].msg = resp.Message,
                                               ![c].pc = "idle"]
                 /\ UNCHANGED <<amiUser, amiPass, panicked>>
            ELSE /\ callers' = [callers EXCEPT ![c].got = resp, ![c].recvd = TRUE,
                                               ![c].ret = "nil", ![c].pc = "idle"]
                 /\ amiUser' = callers[c].user
                 /\ amiPass' = callers[c].pass
                 /\ UNCHANGED panicked
  /\ UNCHANGED <<response, mutexAsyncAction, conn, connRaw, transports, inbox,
                 sent, Events, Error, NetError, readers, notifiers, now,
                 nCalls, nMsgs, nFaults>>

\* What NewConn can come to: the dial fails, the banner line cannot be read,
\* the banner does not name the manager, or the connection is good
NewConnResults == {"errDial", "errBanner", "errNoAMI", "nil"}

\* NewConn: connRaw is assigned the dial's result (nil on failure), conn only
\* after a successful dial
NewConn(res, trs) ==
  IF res = "errDial"
    THEN [connRaw |-> 0, conn |-> conn, transports |-> trs, inbox |-> inbox]
    ELSE [connRaw |-> Len(trs) + 1, conn |-> Len(trs) + 1,
          transports |-> Append(trs, [closed |-> FALSE, eof |-> res = "errBanner"]),
          inbox |-> << >>]

\* A faulty Reconnect: the result of NewConn is not looked at
AfterNewConnUnchecked(res) == "rcSignal"

\* The pc Reconnect goes to after NewConn returned res
AfterNewConn(res) == IF res = "nil" THEN "rcSignal" ELSE "rcNetErr"

\* Reconnect, up to the return of NewConn: client.conn.Close(); NewConn()
ReconnectConnect(c) ==
  /\ CanCall(c)
  /\ \E res \in NewConnResults :
       LET nc == NewConn(res, [transports EXCEPT ![conn].closed = TRUE])
       IN /\ conn' = nc.conn
          /\ connRaw' = nc.connRaw
          /\ transports' = nc.transports
          /\ inbox' = nc.inbox
          /\ callers' = [callers EXCEPT ![c] =
               [IdleCaller EXCEPT !.op = "Reconnect", !.ret = res,
                                  !.pc = AfterNewConn(res)]]
  /\ nCalls' = nCalls + 1
  /\ UNCHANGED <<response, chans, mutexAsyncAction, amiUser, amiPass, sent,
                 Events, Error, NetError, readers, notifiers, now, nMsgs,
                 nFaults, panicked>>

\* client.NetError <- err; return err
ReconnectPushNetError(c) ==
  /\ ~panicked
  /\ callers[c].pc = "rcNetErr"
  /\ Len(NetError) < NetErrorCap
  /\ NetError' = Append(NetError, callers[c].ret)
  /\ callers' = [callers EXCEPT ![c].pc = "idle"]
  /\ UNCHANGED <<response, chans, mutexAsyncAction, amiUser, amiPass, conn,
                 connRaw, transports, inbox, sent, Events, Error, readers,
                 notifiers, now, nCalls, nMsgs, nFaults, panicked>>

\* A faulty signal: the send completes as on a buffered channel, with no
\* reader receiving
ReconnectSignalBuffered(c, r) ==
  /\ ~panicked
  /\ callers[c].pc = "rcSignal"
  /\ r \in DOMAIN readers
  /\ callers' = [callers EXCEPT ![c].pc = "rcLogin"]
  /\ UNCHANGED <<response, chans, mutexAsyncAction, amiUser, amiPass, conn,
                 connRaw, transports, inbox, sent, Events, Error, NetError,
                 readers, notifiers, now, nCalls, nMsgs, nFaults, panicked>>

\* client.waitNewConnection <- struct{}{} meets <-client.waitNewConnection of
\* a parked reader: the channel is unbuffered
ReconnectSignal(c, r) ==
  /\ ~panicked
  /\ callers[c].pc = "rcSignal"
  /\ r \in DOMAIN readers
  /\ readers[r].pc = "park"
  /\ readers' = [readers EXCEPT ![r].pc = "read", ![r].err = ""]
  /\ callers' = [callers EXCEPT ![c].pc = "rcLogin"]
  /\ UNCHANGED <<response, chans, mutexAsyncAction, amiUser, amiPass, conn,
                 connRaw, transports, inbox, sent, Events, Error, NetError,
                 notifiers, now, nCalls, nMsgs, nFaults, panicked>>

\* client.Login(client.amiUser, client.amiPass) inside Reconnect
ReconnectLogin(c) ==
  /\ ~panicked
  /\ callers[c].pc = "rcLogin"
  /\ CanLock
  /\ LoginSubmit(c, amiUser, amiPass, TRUE)
  /\ UNCHANGED <<mutexAsyncAction, amiUser, amiPass, conn, connRaw, transports,
                 inbox, Events, Error, NetError, readers, notifiers,
                 nCalls, nMsgs, nFaults, panicked>>

\* Close: client.Action(Params{"Action": "Logoff"}), its result dropped, then
\* connRaw.Close(), which dereferences nil after a failed dial
Close(c) ==
  /\ CanCall(c)
  /\ CanLock
  /\ \E o \in ActionOutcomes(MkParams(kAction :> vLogoff)) :
       /\ response' = o.response
       /\ chans' = o.chans
       /\ sent' = o.sent
       /\ now' = o.now
  /\ IF connRaw = 0
       THEN /\ panicked' = TRUE
            /\ UNCHANGED <<transports, callers>>
       ELSE /\ transports' = [transports EXCEPT ![connRaw].closed = TRUE]
            /\ callers' = [callers EXCEPT ![c] = [IdleCaller EXCEPT !.op = "Close"]]
            /\ UNCHANGED panicked
  /\ nCalls' = nCalls + 1
  /\ UNCHANGED <<mutexAsyncAction, amiUser, amiPass, conn, connRaw, inbox,
                 Events, Error, NetError, readers, notifiers, nMsgs,
                 nFaults>>

(***************************************************************************)
(* The peer and the application.                                           *)
(***************************************************************************)
Statuses == {"Success", "Error"}
MessageOf(st) == IF st = "Error" THEN "Authentication failed" ELSE ""

\* A header block on its way to us; textproto trims the values it reads
Block(ev, st, id, req) ==
  [Event |-> ev, Response |-> st, Actionid |-> TrimSpace(id),
   Message |-> MessageOf(st), req |-> req, n |-> nMsgs + 1]

Deliver(block) ==
  /\ ~panicked
  /\ nMsgs < MaxMsgs
  /\ Live(conn)
  /\ inbox' = Append(inbox, block)
  /\ nMsgs' = nMsgs + 1

\* The server answers a request written on the current transport, echoing
\* its Actionid
ServerRespond ==
  /\ \E i \in DOMAIN sent : \E st \in Statuses :
       /\ sent[i].tr = conn
       /\ ~sent[i].answered
       /\ Deliver(Block("", st, sent[i].p.Actionid, i))
       /\ sent' = [sent EXCEPT ![i].answered = TRUE]
  /\ UNCHANGED <<response, chans, mutexAsyncAction, amiUser, amiPass, conn,
                 connRaw, transports, Events, Error, NetError, callers,
                 readers, notifiers, now, nCalls, nFaults, panicked>>

\* Identifiers a response nobody is waiting for can carry: one no request
\* used, or one of a request written earlier (late or repeated response)
StrayIds == {idX} \cup {sent[i].p.Actionid : i \in DOMAIN sent}

\* The server sends a response that answers no open request
ServerStray ==
  /\ \E id \in StrayIds : Deliver(Block("", "Success", id, 0))
  /\ UNCHANGED <<response, chans, mutexAsyncAction, amiUser, amiPass, conn,
                 connRaw, transports, sent, Events, Error, NetError, callers,
                 readers, notifiers, now, nCalls, nFaults, panicked>>

\* The server sends an event, with or without the Actionid of an action
ServerEvent ==
  /\ \E id \in {<< >>} \cup DOMAIN response :
       Deliver(Block("PeerStatus", "", id, 0))
  /\ UNCHANGED <<response, chans, mutexAsyncAction, amiUser, amiPass, conn,
                 connRaw, transports, sent, Events, Error, NetError, callers,
                 readers, notifiers, now, nCalls, nFaults, panicked>>

\* The peer ends the current connection
ServerDrop ==
  /\ ~panicked
  /\ nFaults < MaxFaults
  /\ Live(conn)
  /\ transports' = [transports EXCEPT ![conn].eof = TRUE]
  /\ nFaults' = nFaults + 1
  /\ UNCHANGED <<response, chans, mutexAsyncAction, amiUser, amiPass, conn,
                 connRaw, inbox, sent, Events, Error, NetError, callers,
                 readers, notifiers, now, nCalls, nMsgs, panicked>>

\* The application takes a value from Events, Error or NetError
AppDrain ==
  /\ ~panicked
  /\ \/ /\ Events # << >>
        /\ Events' = Tail(Events)
        /\ UNCHANGED <<Error, NetError>>
     \/ /\ Error # << >>
        /\ Error' = Tail(Error)
        /\ UNCHANGED <<Events, NetError>>
     \/ /\ NetError # << >>
        /\ NetError' = Tail(NetError)
        /\ UNCHANGED <<Events, Error>>
  /\ UNCHANGED <<response, chans, mutexAsyncAction, amiUser, amiPass, conn,
                 connRaw, transports, inbox, sent, callers, readers,
                 notifiers, now, nCalls, nMsgs, nFaults, panicked>>

\* The client used for actions: Run, Action and the receive on the channel
\* it returns, against a peer that answers, sends events and stray responses
NextCore ==
  \/ \E c \in Callers : AppAction(c)
  \/ \E c \in Callers : AppRecv(c)
  \/ Run
  \/ \E r \in DOMAIN readers : ReaderReadMsg(r)
  \/ \E r \in DOMAIN readers : ReaderReadErr(r)
  \/ \E r \in DOMAIN readers : ReaderPushNetError(r)
  \/ \E r \in DOMAIN readers : ReaderPushError(r)
  \/ \E r \in DOMAIN readers : ReaderPublish(r)
  \/ \E g \in notifiers : NotifyRLock(g)
  \/ \E g \in notifiers : NotifySend(g)
  \/ \E g \in notifiers : NotifyClose(g)
  \/ \E g \in notifiers : NotifyDelete(g)
  \/ ServerRespond
  \/ ServerStray
  \/ ServerEvent
  \/ ServerDrop
  \/ AppDrain

SpecCore == Init /\ [][NextCore]_vars

\* The client used for its session: Run, Login, Reconnect and Close, against
\* a peer that answers and drops the connection
NextSession ==
  \/ \E c \in Callers : Login(c)
  \/ \E c \in Callers : LoginReceive(c)
  \/ \E c \in Callers : ReconnectConnect(c)
  \/ \E c \in Callers : ReconnectPushNetError(c)
  \/ \E c \in Callers : \E r \in DOMAIN readers : ReconnectSignal(c, r)
  \/ \E c \in Callers : ReconnectLogin(c)
  \/ \E c \in Callers : Close(c)
  \/ Run
  \/ \E r \in DOMAIN readers : ReaderReadMsg(r)
  \/ \E r \in DOMAIN readers : ReaderReadErr(r)
  \/ \E r \in DOMAIN readers : ReaderPushNetError(r)
  \/ \E r \in DOMAIN readers : ReaderPushError(r)
  \/ \E g \in notifiers : NotifyRLock(g)
  \/ \E g \in notifiers : NotifySend(g)
  \/ \E g \in notifiers : NotifyClose(g)
  \/ \E g \in notifiers : NotifyDelete(g)
  \/ ServerRespond
  \/ ServerDrop
  \/ AppDrain

SpecSession == Init /\ [][NextSession]_vars

(***************************************************************************)
(* Properties.                                                             *)
(***************************************************************************)
\* The callers whose Action returned a channel
Submitted == {c \in Callers : callers[c].op = "Action" /\ callers[c].ret = "nil"}

\* C1: every channel Action returns carries exactly one response: the
\* answers to two different requests are never both sent on one channel.
\* (Action reuses the slot of an identifier that is already registered, so
\* two calls with the same Actionid are handed the same channel.)
C1_ExactlyOneDelivery ==
  \A ch \in DOMAIN chans : Cardinality(chans[ch].dlv \ {0}) <= 1

\* C2: a response whose Actionid has no registered slot is dropped: no
\* notifyResponse goroutine is left at its send, holding the read lock, with
\* the nil channel as the channel to send on.
C2_UnregisteredDropped ==
  \A g \in notifiers : g.pc = "send" => Slot(g.resp.ID) # NoChan

\* C3: a caller whose Actionid was generated never receives the answer to
\* another caller's request from the channel Action returned to it.
C3_NoCrossDelivery ==
  \A c \in Submitted :
    (callers[c].recvd /\ callers[c].got.req # 0 /\ sent[callers[c].req].gen)
      => /\ callers[c].got.req = callers[c].req
         /\ callers[c].got.ID = callers[c].id

\* Some caller's Reconnect goes from pc a to pc b in this step, its NewConn
\* having returned nil
ReconnectMoves(a, b) ==
  \E c \in Callers : /\ callers[c].pc = a
                     /\ callers[c].ret = "nil"
                     /\ callers'[c].pc = b

C4_Step ==
  /\ \A r \in DOMAIN readers :
       (readers[r].pc = "netErr" /\ readers'[r] # readers[r])
         => /\ NetError' = Append(NetError, readers[r].err)
            /\ readers'[r].pc = "park"
  /\ \A r \in DOMAIN readers :
       (readers[r].pc = "park" /\ readers'[r] # readers[r])
         => /\ readers'[r].pc = "read"
            /\ NetError' = NetError
            /\ ReconnectMoves("rcSignal", "rcLogin")
  /\ \A c \in Callers :
       (callers[c].pc = "rcLogin" /\ callers'[c] # callers[c])
         => \/ /\ callers'[c].pc = "loginWait"
               /\ callers'[c].req = Len(sent) + 1
               /\ Len(sent') = Len(sent) + 1
               /\ sent'[Len(sent')].tr = conn
               /\ sent'[Len(sent')].p.Action = vLogin
               /\ sent'[Len(sent')].p.Username = TrimSpace(amiUser)
               /\ sent'[Len(sent')].p.Secret = TrimSpace(amiPass)
            \/ /\ callers'[c].pc = "idle"
               /\ callers'[c].ret = "errWrite"
               /\ sent' = sent
  /\ \A c \in Callers :
       (callers[c].inRc /\ callers[c].pc = "loginWait" /\ callers'[c].ret = "nil")
         => /\ callers'[c].pc = "idle"
            /\ callers'[c].recvd
            /\ callers'[c].got = Head(chans[callers[c].ch].buf)
            /\ callers'[c].got.Status # "Error"

\* C4: the reconnect scenario, step by step.  A reader that classified a read
\* failure as a network error puts exactly that one error on NetError and
\* parks; it leaves the park only by the signal of a Reconnect whose NewConn
\* succeeded, and goes back to reading; that Reconnect then writes a Login
\* with the stored credentials on the current transport, and returns nil
\* only after receiving, from the channel of that Login, a response whose
\* status is not Error.  No step of this is a call by the application.
C4_ReconnectScenario == [][C4_Step]_vars

\* C4, reached: Reconnect has returned nil after an end-of-stream on the
\* first transport; the reader is reading again, the Login with the stored
\* credentials went out on the second transport and was answered.
C4_Witness ==
  \E c \in Callers : \E r \in DOMAIN readers :
    /\ callers[c].op = "Reconnect" /\ callers[c].pc = "idle"
    /\ callers[c].ret = "nil"
    /\ callers[c].user # << >>
    /\ callers[c].got.req = callers[c].req
    /\ sent[callers[c].req].tr = 2
    /\ sent[callers[c].req].p.Secret = <<"p", "w">>
    /\ readers[r].lost = 1 /\ readers[r].pc = "read"
    /\ nCalls = 2

\* C5: a reader that has classified a read failure on a transport as a
\* network error does not read again while that transport is still the
\* current one, that is, before a connection newer than the failure exists.
\* (Stated for the runs in which at most one caller has called Reconnect.)
C5_NoReadBeforeNewConnection ==
  Cardinality({c \in Callers : callers[c].op = "Reconnect"}) <= 1
    => \A r \in DOMAIN readers : readers[r].pc = "read" => readers[r].lost # conn

\* The parameter sets that are nil or have no key normalising to Action
InvalidInputs ==
  {p \in ParamInputs : p.nil \/ kAction \notin {NormKey(k) : k \in DOMAIN p.m}}

C6_Rejects ==
  \A p \in InvalidInputs : \A o \in ActionOutcomes(p) :
    /\ o.err = "errInvalidParams"
    /\ o.ch = NoChan
    /\ o.sent = sent
    /\ o.response = response
    /\ o.chans = chans

C6_Step ==
  \A c \in Callers :
    (callers'[c] # callers[c] /\ callers'[c].op = "Action"
       /\ callers'[c].ret = "errInvalidParams")
      => sent' = sent /\ response' = response /\ chans' = chans

\* C6: in every reachable state, Action on a nil parameter set or on one
\* with no key normalising to Action can only return errInvalidParams, and
\* a call that returns it has written nothing and left the registry and its
\* channels as they were.
C6_InvalidParamsNoEffect == [](C6_Rejects) /\ [][C6_Step]_vars

\* C6, reached: Action returned errInvalidParams while another action was
\* pending, and its slot is still there.
C6_Witness ==
  \E c \in Callers :
    /\ callers[c].op = "Action" /\ callers[c].ret = "errInvalidParams"
    /\ DOMAIN response # {}
    /\ Len(sent) = 1

C7_Step ==
  \A r \in DOMAIN readers :
    (readers[r].pc = "event" /\ readers[r].data.Response = ""
       /\ readers'[r] # readers[r])
      => /\ Events' = Append(Events, [ID |-> readers[r].data.Event,
                                      Actionid |-> readers[r].data.Actionid,
                                      n |-> readers[r].data.n])
         /\ notifiers' = notifiers
         /\ response' = response
         /\ chans' = chans

\* C7: the reader's step on a message with an Event header and no Response
\* header appends the event to Events and does nothing else: it starts no
\* notifyResponse, and the registry and every slot stay as they were.
C7_EventOnly == [][C7_Step]_vars

\* C7, reached: an event carrying the Actionid of a pending action has been
\* published, and that action's slot is still registered, empty and open.
C7_Witness ==
  \E i \in DOMAIN Events :
    /\ Events[i].Actionid \in DOMAIN response
    /\ chans[response[Events[i].Actionid]].buf = << >>
    /\ ~chans[response[Events[i].Actionid]].closed
    /\ notifiers = {}

\* C8: at most one reading goroutine reads the current transport at a time.
C8_OneReaderPerTransport ==
  Cardinality({r \in DOMAIN readers : readers[r].pc = "read"}) <= 1

C9_State ==
  \A c \in Callers :
    /\ callers[c].pc = "rcNetErr" => callers[c].ret \in NewConnResults \ {"nil"}
    /\ callers[c].pc \in {"rcSignal", "rcLogin"} => callers[c].ret = "nil"

C9_Step ==
  /\ \A c \in Callers :
       (callers[c].pc = "rcNetErr" /\ callers'[c] # callers[c])
         => /\ NetError' = Append(NetError, callers[c].ret)
            /\ callers'[c].pc = "idle"
            /\ callers'[c].ret = callers[c].ret
            /\ readers' = readers
            /\ sent' = sent
  /\ \A r \in DOMAIN readers :
       (readers[r].pc = "park" /\ readers'[r].pc # "park")
         => ReconnectMoves("rcSignal", "rcLogin")
  /\ \A c \in Callers :
       (callers'[c].inRc /\ ~callers[c].inRc) => callers[c].pc = "rcLogin"

\* C9: a Reconnect whose NewConn failed puts that error on NetError and
\* returns it, moving no reader and writing nothing; only a Reconnect whose
\* NewConn returned nil reaches the signal and the Login, a parked reader
\* leaves the park only in the step in which such a Reconnect signals, and a
\* Login is submitted by Reconnect only after its signal.
C9_FailedConnect == [](C9_State) /\ [][C9_Step]_vars

\* C9, reached: Reconnect has returned its connect error, the error is on
\* NetError, and the reader that lost the first transport is still parked.
C9_Witness ==
  \E c \in Callers : \E r \in DOMAIN readers :
    /\ callers[c].op = "Reconnect" /\ callers[c].pc = "idle"
    /\ callers[c].ret \in {"errDial", "errBanner", "errNoAMI"}
    /\ NetError = <<callers[c].ret>>
    /\ readers[r].pc = "park" /\ readers[r].lost = 1
    /\ sent = << >>

C10_Step ==
  /\ \A c \in Callers :
       (callers[c].pc = "loginWait" /\ callers'[c] # callers[c])
         => /\ callers'[c].pc = "idle"
            /\ callers'[c].got = Head(chans[callers[c].ch].buf)
            /\ IF callers'[c].got.Status = "Error"
                 THEN /\ callers'[c].ret = "errLogin"
                      /\ callers'[c].msg = callers'[c].got.Message
                      /\ amiUser' = amiUser /\ amiPass' = amiPass
                 ELSE /\ callers'[c].ret = "nil"
                      /\ amiUser' = callers[c].user
                      /\ amiPass' = callers[c].pass
  /\ \A c \in Callers :
       (callers'[c] # callers[c] /\ callers'[c].op \in {"Login", "Reconnect"}
          /\ callers'[c].ret = "errWrite")
         => /\ sent' = sent
            /\ amiUser' = amiUser /\ amiPass' = amiPass
  /\ (amiUser' # amiUser \/ amiPass' # amiPass)
       => \E c \in Callers :
            /\ callers[c].pc = "loginWait"
            /\ sent[callers[c].req].p.Action = vLogin
            /\ sent[callers[c].req].p.Username = TrimSpace(callers[c].user)
            /\ callers'[c].got.Status # "Error"
            /\ amiUser' = callers[c].user /\ amiPass' = callers[c].pass

\* C10: the step in which Login takes the response from its channel stores
\* the username and password it was given when the status is not Error, and
\* otherwise returns an error with the response's Message and leaves the
\* stored credentials alone; a Login whose write failed returns that error
\* and stores nothing; and the stored credentials change in no other step.
C10_LoginRecords == [][C10_Step]_vars

\* C10, reached: Login got a response with status Error, returned the
\* server's message, and nothing was stored.
C10_Witness ==
  \E c \in Callers :
    /\ callers[c].op = "Login" /\ callers[c].ret = "errLogin"
    /\ callers[c].msg = "Authentication failed"
    /\ callers[c].user # << >>
    /\ amiUser = << >> /\ amiPass = << >>

\* The callers that have called Reconnect
Reconnecting == {c \in Callers : callers[c].op = "Reconnect"}

\* C11: a connect that fails on the banner not naming the manager closes the
\* connection it opened: when Reconnect comes back from such a NewConn, the
\* session's current transport is closed.  (Stated for the runs in which at
\* most one caller has called Reconnect, so that the current transport is
\* the one this connect opened.)
C11_MismatchTornDown ==
  \A c \in Callers :
    (Cardinality(Reconnecting) <= 1 /\ callers[c].pc = "rcNetErr"
       /\ callers[c].ret = "errNoAMI")
      => transports[conn].closed

\* C12: the Events queue holds the events in the order their messages were
\* read off the wire (n numbers the messages in wire order).
C12_EventsInWireOrder ==
  \A i \in DOMAIN Events : \A j \in DOMAIN Events :
    i < j => Events[i].n < Events[j].n

\* C13: Close is terminal: once a Close call has returned, the session's
\* current transport is a closed one, whatever is called afterwards.
C13_CloseTerminal ==
  (\E c \in Callers : callers[c].op = "Close") => transports[conn].closed

\* The notifyResponse goroutines that carry the server's answer to a request
\* whose Actionid was generated
EchoNotifiers ==
  {g \in notifiers : g.resp.req # 0 /\ sent[g.resp.req].gen}

\* No response that answers no request has reached notifyResponse
NoStrayDelivery ==
  /\ \A g \in notifiers : g.resp.req # 0
  /\ \A ch \in DOMAIN chans : 0 \notin chans[ch].dlv

\* C14: the answer to a request whose Actionid was generated carries the
\* identifier that was written (which is the one Action returned and the key
\* it registered), and when notifyResponse comes to send it the slot under
\* that identifier is there and open, so that it goes to the channel Action
\* returned.
\* (Stated for the runs in which the server has sent no response other than
\* its one answer to each request.)
C14_RoundTrip ==
  NoStrayDelivery =>
    \A g \in EchoNotifiers :
      /\ g.resp.ID = sent[g.resp.req].p.Actionid
      /\ g.pc = "send" => /\ Slot(g.resp.ID) # NoChan
                          /\ ~chans[Slot(g.resp.ID)].closed

\* The answer to request i has been sent on a channel
Delivered(i) == \E ch \in DOMAIN chans : i \in chans[ch].dlv

\* C15: while a request has been written and its answer has not yet been
\* delivered, a slot for its identifier is in the registry.  (Stated for the
\* runs in which the server has sent no response other than its one answer
\* to each request.)
C15_SlotWhilePending ==
  NoStrayDelivery =>
    \A i \in DOMAIN sent :
      ~Delivered(i) => sent[i].p.Actionid \in DOMAIN response

\* The identifiers of the requests written so far: each had a slot registered
WrittenIds == {sent[i].p.Actionid : i \in DOMAIN sent}

\* C16: for an identifier that had a slot registered, notifyResponse never
\* comes to send on a slot that has been removed, closed or already
\* delivered to, and never comes to close one that has been removed or
\* closed.
C16_NoSecondDelivery ==
  \A g \in notifiers :
    g.resp.ID \in WrittenIds =>
      /\ g.pc = "send" => /\ Slot(g.resp.ID) # NoChan
                          /\ ~chans[Slot(g.resp.ID)].closed
                          /\ chans[Slot(g.resp.ID)].dlv = {}
      /\ g.pc = "close" => /\ Slot(g.resp.ID) # NoChan
                           /\ ~chans[Slot(g.resp.ID)].closed

\* C17: a reader that has a read failure of the other kind to report is not
\* held up: the Error stream has room for it.
C17_ErrorNeverBlocks ==
  \A r \in DOMAIN readers : readers[r].pc = "err" => Len(Error) < ErrorCap

\* The callers waiting on a channel for the answer to a request of theirs
\* that has not been delivered
Pending ==
  {d \in Callers : /\ callers[d].pc \in {"await", "loginWait"}
                   /\ ~Delivered(callers[d].req)}

\* C18: when the one Reconnect of a run has returned nil, every action that
\* was written on an earlier transport and is still unanswered has its slot
\* in the registry, with the channel Action returned for it.
C18_PendingSlotsKept ==
  \A c \in Callers : \A d \in Pending :
    (/\ Reconnecting = {c}
     /\ callers[c].pc = "idle" /\ callers[c].ret = "nil"
     /\ sent[callers[d].req].tr < sent[callers[c].req].tr)
      => /\ callers[d].id \in DOMAIN response
         /\ response[callers[d].id] = callers[d].ch

\* The identifiers normaliser can leave in the parameter set p
IdsOf(p) ==
  UNION {{fixp[kActionid] : fixp \in normaliser(p.m, t)} : t \in ClockReadings}

C19_Outcome ==
  \A p \in ParamInputs \ InvalidInputs : \A o \in ActionOutcomes(p) :
    o.err = "errWrite"
      => /\ o.ch = NoChan /\ o.id = << >>
         /\ o.sent = sent
         /\ \E id \in IdsOf(p) :
              IF id \in DOMAIN response
                THEN o.response = response /\ o.chans = chans
                ELSE /\ o.response = response @@ (id :> Len(chans) + 1)
                     /\ o.chans = Append(chans, NewChan)

C19_Step ==
  /\ \A c \in Callers :
       (callers'[c] # callers[c] /\ callers'[c].op = "Action"
          /\ callers'[c].ret = "errWrite")
         => /\ callers'[c].ch = NoChan /\ callers'[c].id = << >>
            /\ sent' = sent
            /\ DOMAIN response' # {}
            /\ \A id \in DOMAIN response :
                 id \in DOMAIN response' /\ response'[id] = response[id]
  /\ \A id \in DOMAIN response :
       id \notin DOMAIN response'
         => \E g \in notifiers :
              g.pc = "lock" /\ g.resp.ID = id /\ g \notin notifiers'

\* C19: an Action whose write fails returns the write error with no channel
\* and an empty identifier, and leaves in the registry the slot it
\* registered for the identifier (or the one it found there); a key leaves
\* the registry only in the delete of a notifyResponse goroutine for that
\* identifier.
C19_SlotStaysOnWriteFailure == [](C19_Outcome) /\ [][C19_Step]_vars

\* C19, reached: Action returned the write error, nothing has been written
\* and no delivery is under way, and the registry holds an open, empty slot.
C19_Witness ==
  \E c \in Callers : \E id \in DOMAIN response :
    /\ callers[c].op = "Action" /\ callers[c].ret = "errWrite"
    /\ callers[c].ch = NoChan
    /\ sent = << >> /\ notifiers = {}
    /\ chans[response[id]] = NewChan

\* The readers that leave the park, and the callers that get past the signal
\* of Reconnect, in this step
Resumed == {r \in DOMAIN readers : readers[r].pc = "park" /\ readers'[r].pc # "park"}
Signalled ==
  {c \in Callers : callers[c].pc = "rcSignal" /\ callers'[c] # callers[c]}

C20_Step ==
  /\ Cardinality(Resumed) = Cardinality(Signalled)
  /\ Cardinality(Signalled) <= 1
  /\ \A c \in Signalled : /\ callers'[c].pc = "rcLogin"
                          /\ callers[c].ret = "nil"
                          /\ sent' = sent
  /\ \A r \in Resumed : /\ readers'[r].pc = "read"
                        /\ readers[r].lost # 0
  /\ \A c \in Callers :
       (callers[c].pc # "rcLogin" /\ callers'[c].pc = "rcLogin") => c \in Signalled

\* C20: a caller gets past the signal of Reconnect only in a step in which
\* exactly one reader, parked after a network error, leaves the park, and a
\* reader leaves the park only in such a step; the Login replay comes only
\* after it.  So with no reader parked the caller stays at the signal: it
\* submits nothing and does not return.
C20_Rendezvous == [][C20_Step]_vars

\* C20, reached: of two parked readers the signal has resumed one, and the
\* caller is on its way to the Login replay while the other stays parked.
C20_Witness ==
  \E c \in Callers : \E r1 \in DOMAIN readers : \E r2 \in DOMAIN readers :
    /\ callers[c].pc = "rcLogin"
    /\ readers[r1].pc = "read" /\ readers[r1].lost = 1
    /\ readers[r2].pc = "park"

=============================================================================
